---- MODULE Spec2Model ----
(***************************************************************************)
(* BioFSI pre-processing pipeline (src/biofsi/pre_processing).             *)
(*                                                                         *)
(* run_pre_processing is one long sequential function.  It is modelled as  *)
(* a state machine whose actions are its stages, in source order.  Every   *)
(* geometry routine is an external collaborator: the model records the     *)
(* call (name, input, options) and gives the result as the input's         *)
(* processing history with the routine's name appended, so that two        *)
(* surfaces are equal exactly when they were produced the same way.        *)
(* What an external routine may answer (capped or not, NaN found or not,   *)
(* outlet count, zero-point mesh, an exception) is drawn with \E.          *)
(*                                                                         *)
(* The files of a case and its parameter store live on disk and survive a  *)
(* run, so a behaviour is a sequence of runs of the same case.  An         *)
(* argument of a run is drawn when the run first reads it: until then it   *)
(* cannot have influenced anything.                                        *)
(***************************************************************************)
EXTENDS Integers, Sequences, FiniteSets, TLC

VARIABLES
    model_is_capped, \* whether the input model is a capped (closed) surface
    disk,       \* file suffix -> content (processing history), <<>> when the file is absent
    store,      \* the per-case parameter store (<case>_info.json)
    run,        \* the run in progress: position, arguments, locals, calls made
    runs,       \* number of runs started so far
    resolved,   \* path resolution (60-83): an input path and what is derived from it
    field,      \* refine_mesh_seed's size field: distances, factor, computed sizes
    search,     \* the backward search of one region line (157-165)
    race        \* two runs of one case interleaving on one cache file

vars == <<model_is_capped, disk, store, run, runs, resolved, field, search, race>>

\* The variables of the pipeline, and those of the closer views of single
\* statements of it; each specification moves one group and leaves the
\* others where they start.
pipeline == <<model_is_capped, disk, store, run, runs>>

Unused == <<>>

\* ----------------------------------------------------------------- bounds
MaxRuns == 2
MaxRegions == 1

\* ------------------------------------------------- constants of the source
\* Lengths are in hundredths (0.23 -> 23), the passband in hundredths too.
SmoothIterations == 400
SmoothPassband == 50
VoronoiLaplaceIterations == 200
FlowExtLaplaceIterations == 200
MeshTargetEdgeLength == 23
MeshSolidThickness == 25
SeedTargetEdgeLength == 25

\* ------------------------------------------------------------- file names
\* Suffixes appended to dir_path/case_name (fsi_meshing.py 66-83).
file_name_centerlines == "_centerlines.vtp"
file_name_refine_region_centerlines == "_refine_region_centerline.vtp"
file_name_region_centerlines == "_sac_centerline_{}.vtp"
file_name_distance_to_sphere_diam == "_distance_to_sphere_diam.vtp"
file_name_distance_to_sphere_const == "_distance_to_sphere_const.vtp"
file_name_distance_to_sphere_curv == "_distance_to_sphere_curv.vtp"
file_name_voronoi == "_voronoi.vtp"
file_name_voronoi_smooth == "_voronoi_smooth.vtp"
file_name_surface_smooth == "_smooth.vtp"
file_name_model_flow_ext == "_flowext.vtp"
file_name_clipped_model == "_clippedmodel.vtp"
file_name_flow_centerlines == "_flow_cl.vtp"
file_name_surface_name == "_remeshed_surface.vtp"
file_name_xml_mesh == "_fsi.xml"
file_name_vtu_mesh == "_fsi.vtu"
file_name_seedX == "_seedX.vtp"

\* file_name_region_centerlines.format(i)
RegionFileNames ==
    <<"_sac_centerline_0.vtp", "_sac_centerline_1.vtp",
      "_sac_centerline_2.vtp", "_sac_centerline_3.vtp">>

format_region(i) == RegionFileNames[i + 1]

RegionFiles == {RegionFileNames[k] : k \in 1..Len(RegionFileNames)}

FileNames ==
    {file_name_centerlines, file_name_refine_region_centerlines,
     file_name_region_centerlines, file_name_distance_to_sphere_diam,
     file_name_distance_to_sphere_const, file_name_distance_to_sphere_curv,
     file_name_voronoi, file_name_voronoi_smooth, file_name_surface_smooth,
     file_name_model_flow_ext, file_name_clipped_model,
     file_name_flow_centerlines, file_name_surface_name, file_name_xml_mesh,
     file_name_vtu_mesh, file_name_seedX} \cup RegionFiles

\* ------------------------------------------------------------------- data
Absent == <<>>

isfile(d, f) == d[f] # Absent

\* The result of an external routine applied to one input / to two inputs.
Apply1(fn, x) == Append(x, fn)
Apply2(fn, x, y) == x \o <<"&">> \o y \o <<fn>>

Model == <<"model">>

\* What a value is: the routine that produced it.
Kind(x) == IF x = Absent THEN "" ELSE x[Len(x)]

\* One external call: the routine, what its main input is, an option or file
\* name, two numeric options (0 when the routine has none) and the region
\* points it is given ("-" when it takes none).
Call(fn, input, mode, n1, n2, points) ==
    [stage |-> "", fn |-> fn, input |-> Kind(input), mode |-> mode,
     n1 |-> n1, n2 |-> n2, points |-> points]

Simple(fn, input) == Call(fn, input, "", 0, 0, "-")

Read(f) == Call("read_polydata", Absent, f, 0, 0, "-")
Write(x, f) == Call("write_polydata", x, f, 0, 0, "-")

\* ------------------------------------------------------------- arguments
SmoothingMethods == {"voronoi", "no_smooth", "laplace", "taubin"}
MeshingMethods == {"diameter", "curvature", "constant"}
EdgeLengths == {"None", "given"}
RegionPoints == {"None", "given"}
ScaleFactors == {"None", "given"}

\* The arguments of run_pre_processing (36-39).
ArgumentNames ==
    {"smoothing_method", "meshing_method", "edge_length", "refine_region",
     "create_flow_extensions", "region_points", "scale_factor",
     "compress_mesh", "viz"}

\* The record of a run that has read none of its arguments yet.
NoArguments ==
    [smoothing_method |-> "", meshing_method |-> "", edge_length |-> "",
     refine_region |-> FALSE, create_flow_extensions |-> FALSE,
     region_points |-> "", scale_factor |-> "", compress_mesh |-> FALSE,
     viz |-> FALSE]

\* -------------------------------------------------------- parameter store
\* get_parameters returns {} when the file does not exist.
EmptyParameters ==
    [check_surface |-> FALSE, number_of_regions |-> 0,
     centers |-> FALSE, boundaries |-> FALSE]

NoStore == [exists |-> FALSE, data |-> EmptyParameters]

get_parameters(s) == IF s.exists THEN s.data ELSE EmptyParameters

write_parameters(p) == [exists |-> TRUE, data |-> p]

\* ----------------------------------------------------------------- a run
\* pc: the stage the run is at, or idle / done / aborted (an uncaught
\* exception, named in error) / exited (sys.exit, with status).
\* args, read: the arguments and which of them the run has read.
\* calls: the external calls made, in order; raisedAt: the position in calls
\* of the first call in which an external routine raised (0: none).
\* hits: the cache files path.isfile found present.
\* foundNaN, outlets_differ: the value of the condition at 115 / 216 ("-"
\* while it has not been evaluated).  The other fields are the locals of
\* run_pre_processing, Absent while unbound.
Bool(b) == IF b THEN "True" ELSE "False"

IdleRun ==
    [pc |-> "idle", args |-> NoArguments, read |-> {}, error |-> "", status |-> -1,
     raisedAt |-> 0, hits |-> {}, calls |-> <<>>, capped |-> FALSE,
     foundNaN |-> "-", outlets_differ |-> "-",
     surface |-> Absent, capped_surface |-> Absent, centerlines |-> Absent,
     inlet |-> Absent, parameters |-> EmptyParameters,
     refine_region_centerline |-> <<>>, region_centerlines |-> Absent,
     region_center |-> <<>>,
     voronoi |-> Absent, smooth_voronoi |-> Absent,
     surface_uncapped |-> Absent, surface_extended |-> Absent,
     remeshed_surface_seed |-> Absent, mesh |-> Absent,
     remeshed_surface |-> Absent]

\* The world of one run: its record, its disk and its parameter store.
World(r, d, s) == [run |-> r, disk |-> d, store |-> s]

\* The stage a position of the run belongs to.
StageOf(pc) ==
    CASE pc \in {"voronoi", "voronoi_smooth", "envelope"} -> "smooth"
      [] OTHER -> pc

\* Append calls to the run's log.
Log(r, cs) == [r EXCEPT !.calls = @ \o cs]

\* The calls a step added to the log carry the stage that made them.
Tag(r, w) ==
    [w EXCEPT !.run.calls =
        [k \in 1..Len(@) |->
            IF k > Len(r.calls) THEN [@[k] EXCEPT !.stage = StageOf(r.pc)]
            ELSE @[k]]]

\* The run reads the arguments `names`: those it has not read yet take the
\* values given in o.
Draw(r, o, names) ==
    [r EXCEPT !.args = [n \in ArgumentNames |->
                          IF n \in names \ r.read THEN o[n] ELSE @[n]],
              !.read = @ \cup names]

Hit(r, f) == [r EXCEPT !.hits = @ \cup {f}]

\* An exception that nothing catches: the run ends at the call that raised.
Raise(r, call, err) ==
    LET l == Log(r, <<call>>)
    IN  [l EXCEPT !.pc = "aborted", !.error = err,
                  !.raisedAt = IF @ = 0 THEN Len(l.calls) ELSE @]

\* ------------------------------------------------ load and uncap (87-103)
\* load_model with the existence check at 93 dropped: it always uncaps.
load_model_no_cache(r0, d, s, o) ==
    LET r == Draw(r0, o, {"smoothing_method"}) IN
    IF o.raise THEN World(Raise(r0, Read("model"), "External"), d, s)
    ELSE
    LET r1 == Log([r EXCEPT !.surface = Model, !.capped = o.capped],
                  <<Read("model"), Simple("is_surface_capped", Model)>>)
    IN  IF o.capped /\ r.args.smoothing_method # "voronoi"
        THEN LET surface == Apply1("get_uncapped_surface", Model)
             IN  World(Log([r1 EXCEPT !.surface = surface, !.pc = "verify"],
                           <<Call("get_uncapped_surface", Model,
                                  "gradients_limit=0.01,area_limit=20,circleness_limit=5",
                                  0, 0, "-"),
                             Write(surface, file_name_clipped_model)>>),
                       [d EXCEPT ![file_name_clipped_model] = surface], s)
        ELSE World([r1 EXCEPT !.pc = "verify"], d, s)

\* o.capped: what is_surface_capped answers; o.raise: read_polydata raises.
load_model(r0, d, s, o) ==
    LET r == Draw(r0, o, {"smoothing_method"}) IN
    IF o.raise THEN World(Raise(r0, Read("model"), "External"), d, s)
    ELSE
    LET r1 == Log([r EXCEPT !.surface = Model, !.capped = o.capped],
                  <<Read("model"), Simple("is_surface_capped", Model)>>)
    IN  IF o.capped /\ r.args.smoothing_method # "voronoi"
        THEN IF ~isfile(d, file_name_clipped_model)
             THEN LET surface == Apply1("get_uncapped_surface", Model)
                  IN  World(Log([r1 EXCEPT !.surface = surface, !.pc = "verify"],
                                <<Call("get_uncapped_surface", Model,
                                       "gradients_limit=0.01,area_limit=20,circleness_limit=5",
                                       0, 0, "-"),
                                  Write(surface, file_name_clipped_model)>>),
                            [d EXCEPT ![file_name_clipped_model] = surface], s)
             ELSE World(Log([Hit(r1, file_name_clipped_model) EXCEPT
                                !.surface = d[file_name_clipped_model],
                                !.pc = "verify"],
                            <<Read(file_name_clipped_model)>>), d, s)
        ELSE World([r1 EXCEPT !.pc = "verify"], d, s)

\* --------------------------------------------- verify and repair (104-120)
\* verify_surface with the store written before foundNaN is looked at.
verify_surface_write_first(r, d, s, o) ==
    LET parameters == get_parameters(s)
        r0 == Log([r EXCEPT !.parameters = parameters],
                  <<Simple("get_parameters", Absent)>>)
    IN  IF parameters.check_surface
        THEN World([r0 EXCEPT !.pc = "centerlines"], d, s)
        ELSE IF o.raise
        THEN World(Raise(r0, Simple("vtk_clean_polydata", r.surface), "External"), d, s)
        ELSE
        LET s1 == Apply1("vtk_clean_polydata", r.surface)
            s2 == Apply1("vtk_triangulate_surface", s1)
            s3 == Apply1("cleanTheSurface", s2)
            p == [parameters EXCEPT !.check_surface = TRUE]
            r1 == Log([r0 EXCEPT !.surface = s3, !.foundNaN = Bool(o.foundNaN),
                                 !.parameters = p],
                      <<Simple("vtk_clean_polydata", r.surface),
                        Simple("vtk_triangulate_surface", s1),
                        Simple("surfaceOverview", s2),
                        Simple("foundAndDeleteNaNTriangles", s2),
                        Simple("cleanTheSurface", s2),
                        Simple("foundAndDeleteNaNTriangles", s3),
                        Simple("write_parameters", Absent)>>)
        IN  IF o.foundNaN
            THEN World([r1 EXCEPT !.pc = "aborted", !.error = "RuntimeError"],
                       d, write_parameters(p))
            ELSE World([r1 EXCEPT !.pc = "centerlines"], d, write_parameters(p))

\* o.foundNaN: what the second foundAndDeleteNaNTriangles answers.
verify_surface(r, d, s, o) ==
    LET parameters == get_parameters(s)
        r0 == Log([r EXCEPT !.parameters = parameters],
                  <<Simple("get_parameters", Absent)>>)
    IN  IF parameters.check_surface
        THEN World([r0 EXCEPT !.pc = "centerlines"], d, s)
        ELSE IF o.raise
        THEN World(Raise(r0, Simple("vtk_clean_polydata", r.surface), "External"), d, s)
        ELSE
        LET s1 == Apply1("vtk_clean_polydata", r.surface)
            s2 == Apply1("vtk_triangulate_surface", s1)
            s3 == Apply1("cleanTheSurface", s2)
            r1 == Log([r0 EXCEPT !.surface = s3, !.foundNaN = Bool(o.foundNaN)],
                      <<Simple("vtk_clean_polydata", r.surface),
                        Simple("vtk_triangulate_surface", s1),
                        Simple("surfaceOverview", s2),
                        Simple("foundAndDeleteNaNTriangles", s2),
                        Simple("cleanTheSurface", s2),
                        Simple("foundAndDeleteNaNTriangles", s3)>>)
        IN  IF o.foundNaN
            THEN World([r1 EXCEPT !.pc = "aborted", !.error = "RuntimeError"], d, s)
            ELSE LET p == [parameters EXCEPT !.check_surface = TRUE]
                 IN  World(Log([r1 EXCEPT !.parameters = p, !.pc = "centerlines"],
                               <<Simple("write_parameters", Absent)>>),
                           d, write_parameters(p))

\* ---------------------------------------------------- centerlines (122-132)
\* morphman's compute_centerlines keeps its own cache: it returns the file's
\* content when the file exists, and writes the file otherwise.
compute_centerlines(d, targets, f, capped_surface) ==
    IF isfile(d, f) THEN d[f]
    ELSE Apply2("compute_centerlines", capped_surface, targets)

\* get_centers_for_meshing records the inlet and outlet centers in the store.
get_centers_for_meshing(s) ==
    write_parameters([get_parameters(s) EXCEPT !.centers = TRUE])

get_centerlines(r, d, s, o) ==
    IF o.raise
    THEN World(Raise(r, Simple("vmtk_cap_polydata", r.surface), "External"), d, s)
    ELSE
    LET capped_surface == Apply1("vmtk_cap_polydata", r.surface)
        inlet == Apply1("inlet", r.surface)
        outlets == Apply1("outlets", r.surface)
        centerlines == compute_centerlines(d, outlets, file_name_centerlines, capped_surface)
    IN  World(Log([r EXCEPT !.capped_surface = capped_surface, !.inlet = inlet,
                            !.centerlines = centerlines, !.pc = "region"],
                  <<Simple("vmtk_cap_polydata", r.surface),
                    Simple("get_centers_for_meshing", r.surface),
                    Call("compute_centerlines", capped_surface, file_name_centerlines,
                         0, 0, "-"),
                    Simple("get_centerline_tolerance", centerlines)>>),
              [d EXCEPT ![file_name_centerlines] = centerlines],
              get_centers_for_meshing(s))

\* --------------------------------------------- region of interest (138-181)
\* vmtk_smooth_surface(surface, method, iterations=..)
Smoothed(x, method, iterations) ==
    x \o <<method, ToString(iterations), "vmtk_smooth_surface">>

RECURSIVE vtk_merge_polydata(_)
vtk_merge_polydata(list) ==
    IF list = <<>> THEN <<"vtk_merge_polydata">>
    ELSE Head(list) \o <<"&">> \o vtk_merge_polydata(Tail(list))

\* get_regions_to_refine records number_of_regions in the store.
get_regions_to_refine(s, n) ==
    write_parameters([get_parameters(s) EXCEPT !.number_of_regions = n])

\* The region centerline of line i: the line, cut where it meets the full
\* centerline (lines 155-165).
region_line(centerlineAnu, centerlines, i) ==
    Apply2("extract_single_line",
           centerlineAnu \o <<"extract_single_line", ToString(i)>>, centerlines)

RECURSIVE region_calls(_, _, _, _, _)
region_calls(d, centerlineAnu, centerlines, i, num_anu) ==
    IF i >= num_anu THEN <<>>
    ELSE (IF ~isfile(d, format_region(i))
          THEN <<Call("extract_single_line", centerlineAnu, ToString(i), 0, 0, "-"),
                 Simple("get_vtk_point_locator", centerlines),
                 Call("extract_single_line",
                      centerlineAnu \o <<"extract_single_line", ToString(i)>>,
                      "start_id", 0, 0, "-"),
                 Write(region_line(centerlineAnu, centerlines, i), format_region(i))>>
          ELSE <<Read(format_region(i))>>)
         \o region_calls(d, centerlineAnu, centerlines, i + 1, num_anu)

\* o.n: the number of regions get_regions_to_refine finds.
refine_region_stage(r0, d, s, o) ==
    LET ra == Draw(r0, o, {"refine_region"})
        r == IF ra.args.refine_region THEN Draw(ra, o, {"region_points"}) ELSE ra
    IN
    IF ~r.args.refine_region THEN World([r EXCEPT !.pc = "smooth"], d, s)
    ELSE IF o.raise
    THEN World(Raise(r, Call("get_regions_to_refine", r.capped_surface, "", 0, 0,
                             r.args.region_points), "External"), d, s)
    ELSE
    LET regions == Apply1("get_regions_to_refine", r.capped_surface)
        s1 == get_regions_to_refine(s, o.n)
        centerlineAnu == compute_centerlines(d, regions,
                            file_name_refine_region_centerlines, r.capped_surface)
        d1 == [d EXCEPT ![file_name_refine_region_centerlines] = centerlineAnu]
        num_anu == get_parameters(s1).number_of_regions
        item(i) == IF ~isfile(d1, format_region(i))
                   THEN region_line(centerlineAnu, r.centerlines, i)
                   ELSE d1[format_region(i)]
        refine_region_centerline == [k \in 1..num_anu |-> item(k - 1)]
        d2 == [f \in FileNames |->
                 IF \E k \in 1..num_anu : f = format_region(k - 1)
                 THEN item((CHOOSE k \in 1..num_anu : f = format_region(k - 1)) - 1)
                 ELSE d1[f]]
        found == {format_region(k - 1) : k \in 1..num_anu} \cap {f \in FileNames : isfile(d1, f)}
        r1 == Log([r EXCEPT !.hits = @ \cup found,
                            !.refine_region_centerline = refine_region_centerline,
                            !.region_centerlines = vtk_merge_polydata(refine_region_centerline),
                            !.region_center = [k \in 1..num_anu |->
                                Apply1("GetPoint", refine_region_centerline[k])],
                            !.pc = "smooth"],
                  <<Call("get_regions_to_refine", r.capped_surface, "", 0, 0,
                         r.args.region_points),
                    Call("compute_centerlines", r.capped_surface,
                         file_name_refine_region_centerlines, 0, 0, "-"),
                    Simple("get_parameters", Absent)>>
                  \o region_calls(d1, centerlineAnu, r.centerlines, 0, num_anu)
                  \o <<Simple("vtk_merge_polydata", Absent)>>
                  \o [k \in 1..num_anu |->
                        Simple("get_point_data_array", refine_region_centerline[k])])
    IN  World(r1, d2, s1)

\* ------------------------------------------------------ smoothing (183-249)
\* smoothing_call with iterations and passband left at the filter's defaults.
smoothing_call_defaults(surface, method) ==
    Call("vmtk_smooth_surface", surface, method, 0, 0, "-")

\* The call of the laplace / taubin branch (240).
smoothing_call(surface, method) ==
    Call("vmtk_smooth_surface", surface, method, SmoothIterations, SmoothPassband, "-")

\* The dispatch on smoothing_method, and the whole laplace / taubin branch.
smooth_surface(r, d, s, o) ==
    LET m == r.args.smoothing_method
    IN  IF m = "voronoi"
        THEN IF ~isfile(d, file_name_surface_smooth)
             THEN World([r EXCEPT !.pc = "voronoi"], d, s)
             ELSE IF o.raise
             THEN World(Raise(r, Read(file_name_surface_smooth), "External"), d, s)
             ELSE World(Log([Hit(r, file_name_surface_smooth) EXCEPT
                                !.surface = d[file_name_surface_smooth],
                                !.pc = "flowext"],
                            <<Read(file_name_surface_smooth)>>), d, s)
        ELSE IF m \in {"laplace", "taubin"}
        THEN IF ~isfile(d, file_name_surface_smooth)
             THEN LET c == smoothing_call(r.surface, m)
                      surface == Smoothed(r.surface, m, SmoothIterations)
                  IN  IF o.raise THEN World(Raise(r, c, "External"), d, s)
                      ELSE World(Log([r EXCEPT !.surface = surface, !.pc = "flowext"],
                                     <<c, Write(surface, file_name_surface_smooth)>>),
                                 [d EXCEPT ![file_name_surface_smooth] = surface], s)
             ELSE IF o.raise
             THEN World(Raise(r, Read(file_name_surface_smooth), "External"), d, s)
             ELSE World(Log([Hit(r, file_name_surface_smooth) EXCEPT
                                !.surface = d[file_name_surface_smooth],
                                !.pc = "flowext"],
                            <<Read(file_name_surface_smooth)>>), d, s)
        ELSE World([r EXCEPT !.pc = "flowext"], d, s)

\* Voronoi diagram (187-192).
voronoi_diagram(r, d, s, o) ==
    IF ~isfile(d, file_name_voronoi)
    THEN LET c == Call("vmtk_compute_voronoi_diagram", r.surface, file_name_voronoi,
                       0, 0, "-")
             voronoi == Apply1("vmtk_compute_voronoi_diagram", r.surface)
         IN  IF o.raise THEN World(Raise(r, c, "External"), d, s)
             ELSE World(Log([r EXCEPT !.voronoi = voronoi, !.pc = "voronoi_smooth"],
                            <<c, Write(voronoi, file_name_voronoi)>>),
                        [d EXCEPT ![file_name_voronoi] = voronoi], s)
    ELSE IF o.raise THEN World(Raise(r, Read(file_name_voronoi), "External"), d, s)
    ELSE World(Log([Hit(r, file_name_voronoi) EXCEPT
                       !.voronoi = d[file_name_voronoi], !.pc = "voronoi_smooth"],
                   <<Read(file_name_voronoi)>>), d, s)

\* Smoothed (pruned) Voronoi diagram (194-203).
voronoi_smooth(r, d, s, o) ==
    IF ~isfile(d, file_name_voronoi_smooth)
    THEN LET c == Call("smooth_voronoi_diagram", r.voronoi,
                       IF r.args.refine_region THEN "region_centerlines" ELSE "",
                       0, 0, "-")
             with == IF r.args.refine_region
                     THEN r.centerlines \o <<"&">> \o r.region_centerlines
                     ELSE r.centerlines
             smooth_voronoi == Apply2("smooth_voronoi_diagram", r.voronoi, with)
         IN  IF o.raise THEN World(Raise(r, c, "External"), d, s)
             ELSE World(Log([r EXCEPT !.smooth_voronoi = smooth_voronoi,
                                      !.pc = "envelope"],
                            <<c, Write(smooth_voronoi, file_name_voronoi_smooth)>>),
                        [d EXCEPT ![file_name_voronoi_smooth] = smooth_voronoi], s)
    ELSE IF o.raise THEN World(Raise(r, Read(file_name_voronoi_smooth), "External"), d, s)
    ELSE World(Log([Hit(r, file_name_voronoi_smooth) EXCEPT
                       !.smooth_voronoi = d[file_name_voronoi_smooth],
                       !.pc = "envelope"],
                   <<Read(file_name_voronoi_smooth)>>), d, s)

\* envelope_surface with the sys.exit(0) at 223 dropped: the fallback surface
\* goes on to the next stage.
envelope_surface_no_exit(r, d, s, o) ==
    IF o.raise
    THEN World(Raise(r, Simple("create_new_surface", r.smooth_voronoi), "External"), d, s)
    ELSE
    LET surface == Apply1("create_new_surface", r.smooth_voronoi)
        surface_uncapped == Apply1("get_uncapped_surface", surface)
        used == IF o.mismatch THEN surface ELSE surface_uncapped
        final == Smoothed(used, "laplace", VoronoiLaplaceIterations)
    IN  World(Log([r EXCEPT !.surface = final, !.surface_uncapped = surface_uncapped,
                            !.outlets_differ = Bool(o.mismatch), !.pc = "flowext"],
                  <<Simple("create_new_surface", r.smooth_voronoi),
                    Simple("get_uncapped_surface", surface),
                    Simple("compute_centers", surface_uncapped),
                    Call("vmtk_smooth_surface", used, "laplace",
                         VoronoiLaplaceIterations, 0, "-"),
                    Write(final, file_name_surface_smooth)>>),
              [d EXCEPT ![file_name_surface_smooth] = final], s)

\* New surface, uncapping and the outlet check (205-232).
\* o.mismatch: the outlet count differs from the number of centerline lines.
envelope_surface(r, d, s, o) ==
    IF o.raise
    THEN World(Raise(r, Simple("create_new_surface", r.smooth_voronoi), "External"), d, s)
    ELSE
    LET surface == Apply1("create_new_surface", r.smooth_voronoi)
        surface_uncapped == Apply1("get_uncapped_surface", surface)
        r1 == Log([r EXCEPT !.surface = surface, !.surface_uncapped = surface_uncapped,
                            !.outlets_differ = Bool(o.mismatch)],
                  <<Simple("create_new_surface", r.smooth_voronoi),
                    Simple("get_uncapped_surface", surface),
                    Simple("compute_centers", surface_uncapped)>>)
    IN  IF o.mismatch
        THEN LET fallback == Smoothed(surface, "laplace", VoronoiLaplaceIterations)
             IN  World(Log([r1 EXCEPT !.surface = fallback, !.pc = "exited", !.status = 0],
                           <<Call("vmtk_smooth_surface", surface, "laplace",
                                  VoronoiLaplaceIterations, 0, "-"),
                             Write(fallback, file_name_surface_smooth)>>),
                       [d EXCEPT ![file_name_surface_smooth] = fallback], s)
        ELSE LET final == Smoothed(surface_uncapped, "laplace", VoronoiLaplaceIterations)
             IN  World(Log([r1 EXCEPT !.surface = final, !.pc = "flowext"],
                           <<Call("vmtk_smooth_surface", surface_uncapped, "laplace",
                                  VoronoiLaplaceIterations, 0, "-"),
                             Write(final, file_name_surface_smooth)>>),
                       [d EXCEPT ![file_name_surface_smooth] = final], s)

\* ------------------------------------------------- flow extensions (251-271)
add_flow_extensions(r0, d, s, o) ==
    LET r == Draw(r0, o, {"create_flow_extensions"}) IN
    LET cap(x) == Simple("vmtk_cap_polydata", x)
        capped(x) == Apply1("vmtk_cap_polydata", x)
    IN  IF r.args.create_flow_extensions
        THEN IF ~isfile(d, file_name_model_flow_ext)
             THEN LET c1 == Call("add_flow_extension", r.surface,
                                 "include_outlet=False,boundarynormal", 0, 0, "-")
                      e1 == Apply2("add_flow_extension_inlet", r.surface, r.centerlines)
                      e2 == Apply2("add_flow_extension_outlet", e1, r.centerlines)
                      e3 == Smoothed(e2, "laplace", FlowExtLaplaceIterations)
                  IN  IF o.raise THEN World(Raise(r, c1, "External"), d, s)
                      ELSE World(Log([r EXCEPT !.surface_extended = e3,
                                               !.capped_surface = capped(e3),
                                               !.pc = "flow_cl"],
                                     <<c1,
                                       Call("add_flow_extension", e1,
                                            "include_outlet=True", 0, 0, "-"),
                                       Call("vmtk_smooth_surface", e2, "laplace",
                                            FlowExtLaplaceIterations, 0, "-"),
                                       Write(e3, file_name_model_flow_ext),
                                       cap(e3)>>),
                                 [d EXCEPT ![file_name_model_flow_ext] = e3], s)
             ELSE IF o.raise
             THEN World(Raise(r, Read(file_name_model_flow_ext), "External"), d, s)
             ELSE LET e == d[file_name_model_flow_ext]
                  IN  World(Log([Hit(r, file_name_model_flow_ext) EXCEPT
                                    !.surface_extended = e,
                                    !.capped_surface = capped(e),
                                    !.pc = "flow_cl"],
                                <<Read(file_name_model_flow_ext), cap(e)>>), d, s)
        ELSE IF o.raise THEN World(Raise(r, cap(r.surface), "External"), d, s)
        ELSE World(Log([r EXCEPT !.surface_extended = r.surface,
                                 !.capped_surface = capped(r.surface),
                                 !.pc = "flow_cl"],
                       <<cap(r.surface)>>), d, s)

\* ------------------------------ centerlines of the extended model (273-287)
flow_centerlines(r, d, s, o) ==
    IF r.args.create_flow_extensions
    THEN IF ~isfile(d, file_name_flow_centerlines)
         THEN LET c == Call("get_centers_for_meshing", r.surface_extended,
                            "use_flow_extensions=True", 0, 0, "-")
                  inlet == Apply1("inlet", r.surface_extended)
                  outlets == Apply1("outlets", r.surface_extended)
                  centerlines == compute_centerlines(d, outlets,
                                     file_name_flow_centerlines, r.capped_surface)
              IN  IF o.raise THEN World(Raise(r, c, "External"), d, s)
                  ELSE World(Log([r EXCEPT !.inlet = inlet,
                                           !.centerlines = centerlines,
                                           !.pc = "seed"],
                                 <<c, Call("compute_centerlines", r.capped_surface,
                                           file_name_flow_centerlines, 0, 0, "-")>>),
                             [d EXCEPT ![file_name_flow_centerlines] = centerlines],
                             get_centers_for_meshing(s))
         ELSE IF o.raise
         THEN World(Raise(r, Read(file_name_flow_centerlines), "External"), d, s)
         ELSE World(Log([Hit(r, file_name_flow_centerlines) EXCEPT
                            !.centerlines = d[file_name_flow_centerlines],
                            !.pc = "seed"],
                        <<Read(file_name_flow_centerlines)>>), d, s)
    ELSE World([r EXCEPT !.pc = "seed"], d, s)

\* --------------------------------------------------- seed remeshing (289-293)
\* refine_mesh_seed (pre_processing_common.py 45-96): the distance of every
\* vertex to seedX, then vmtkSurfaceRemeshing, then the file is written.
\* np.asarray(None) - np.asarray(piX) raises TypeError.
refine_mesh_seed(surface, seedX) ==
    [error |-> IF seedX = "None" THEN "TypeError" ELSE "",
     call |-> Call("vmtkSurfaceRemeshing", surface, "edgelengtharray",
                   SeedTargetEdgeLength, 0, seedX),
     surface |-> Apply1("vmtkSurfaceRemeshing", surface)]

seed_remesh(r0, d, s, o) ==
    IF ~isfile(d, file_name_seedX)
    THEN LET r == Draw(r0, o, {"region_points"})
             res == refine_mesh_seed(r.surface_extended, r.args.region_points)
             c == Call("refine_mesh_seed", r.surface_extended, file_name_seedX,
                       0, 0, r.args.region_points)
         IN  IF res.error # "" THEN World(Raise(r, c, res.error), d, s)
             ELSE IF o.raise
             THEN World(Raise(Log(r, <<c>>), res.call, "External"), d, s)
             ELSE World(Log([r EXCEPT !.remeshed_surface_seed = res.surface,
                                      !.pc = "mesh"],
                            <<c, res.call>>),
                        [d EXCEPT ![file_name_seedX] = res.surface], s)
    ELSE IF o.raise THEN World(Raise(r0, Read(file_name_seedX), "External"), d, s)
    ELSE World(Log([Hit(r0, file_name_seedX) EXCEPT
                       !.remeshed_surface_seed = d[file_name_seedX],
                       !.pc = "mesh"],
                   <<Read(file_name_seedX)>>), d, s)

\* -------------------------------------------------- mesh generation (295-319)
NoPoints == "no_points"

GetNumberOfPoints(x) == IF x # Absent /\ x[Len(x)] = NoPoints THEN 0 ELSE 1

MeshOutcomes == {"ok", "no_mesh_points", "no_surface_points", "raise"}

\* mesh_target_edge_length with the edge_length option wired in.
mesh_target_edge_length_option(args) ==
    IF args.edge_length = "given" THEN 0 ELSE MeshTargetEdgeLength

\* The keyword arguments of the two generate_mesh_fsi calls (299, 306).
mesh_target_edge_length(args) == MeshTargetEdgeLength
mesh_solid_thickness(args) == MeshSolidThickness

\* generate_mesh_fsi (pre_processing_common.py 98-139); outcome is what the
\* mesh generator produces for this surface.
generate_mesh_fsi(surface, Solid_thickness, TargetEdgeLength, outcome) ==
    LET mesh == Apply1("vmtkMeshGeneratorFsi.Mesh", surface)
        remeshed == Apply1("vmtkMeshGeneratorFsi.RemeshedSurface", surface)
    IN  [call |-> Call("vmtkMeshGeneratorFsi", surface, "edgelength",
                       TargetEdgeLength, Solid_thickness, "-"),
         mesh |-> IF outcome = "no_mesh_points" THEN Append(mesh, NoPoints) ELSE mesh,
         remeshed_surface |-> IF outcome = "no_surface_points"
                              THEN Append(remeshed, NoPoints) ELSE remeshed]

\* The two asserts after a generation (300-302, 307-309): whether both
\* pass, and the GetNumberOfPoints calls made (the second assert is not
\* reached when the first fails).
points_asserted(x, y) ==
    [ok |-> GetNumberOfPoints(x) > 0 /\ GetNumberOfPoints(y) > 0,
     calls |-> IF GetNumberOfPoints(x) > 0
               THEN <<Simple("GetNumberOfPoints", x), Simple("GetNumberOfPoints", y)>>
               ELSE <<Simple("GetNumberOfPoints", x)>>]

\* scale_and_write that scales the mesh and leaves the surface as it is.
scale_and_write_mesh_only(r0, d, s, o) ==
    LET r == Draw(r0, o, {"scale_factor", "compress_mesh"})
        scale == r.args.scale_factor # "None"
        mesh == IF scale THEN Apply1("vmtkMeshScaling", r.mesh) ELSE r.mesh
    IN  World(Log([r EXCEPT !.mesh = mesh, !.pc = "boundary"],
                  (IF scale THEN <<Simple("vmtkMeshScaling", r.mesh)>> ELSE <<>>)
                  \o <<Write(r.remeshed_surface, file_name_surface_name),
                       Write(mesh, file_name_vtu_mesh),
                       Call("vmtkMeshWriter", mesh, file_name_xml_mesh,
                            IF r.args.compress_mesh THEN 1 ELSE 0, 0, "-")>>),
              [d EXCEPT ![file_name_surface_name] = r.remeshed_surface,
                        ![file_name_vtu_mesh] = mesh,
                        ![file_name_xml_mesh] = mesh], s)

\* Scaling and write_mesh (311-316, pre_processing_common.py 141-164).
scale_and_write(r0, d, s, o) ==
    LET r == Draw(r0, o, {"scale_factor", "compress_mesh"})
        scale == r.args.scale_factor # "None"
        remeshed_surface == IF scale THEN Apply1("vmtkSurfaceScaling", r.remeshed_surface)
                            ELSE r.remeshed_surface
        mesh == IF scale THEN Apply1("vmtkMeshScaling", r.mesh) ELSE r.mesh
    IN  World(Log([r EXCEPT !.remeshed_surface = remeshed_surface, !.mesh = mesh,
                            !.pc = "boundary"],
                  (IF scale THEN <<Simple("vmtkSurfaceScaling", r.remeshed_surface),
                                   Simple("vmtkMeshScaling", r.mesh)>>
                   ELSE <<>>)
                  \o <<Write(remeshed_surface, file_name_surface_name),
                       Write(mesh, file_name_vtu_mesh),
                       Call("vmtkMeshWriter", mesh, file_name_xml_mesh,
                            IF r.args.compress_mesh THEN 1 ELSE 0, 0, "-")>>),
              [d EXCEPT ![file_name_surface_name] = remeshed_surface,
                        ![file_name_vtu_mesh] = mesh,
                        ![file_name_xml_mesh] = mesh], s)

\* mesh_retry with the two asserts at 307-309 dropped.
mesh_retry_unchecked(r, d, s, o) ==
    LET seed == r.remeshed_surface_seed
        c == Simple("mesh_alternative", seed)
        alt == Apply1("mesh_alternative", seed)
        g == generate_mesh_fsi(alt, mesh_solid_thickness(r.args),
                               mesh_target_edge_length(r.args), o.second)
        r1 == [r EXCEPT !.remeshed_surface_seed = alt]
    IN  IF o.alt_raise THEN World(Raise(r, c, "External"), d, s)
        ELSE IF o.second = "raise"
        THEN World(Raise(Log(r1, <<c>>), g.call, "External"), d, s)
        ELSE scale_and_write(Log([r1 EXCEPT !.mesh = g.mesh,
                                            !.remeshed_surface = g.remeshed_surface],
                                 <<c, g.call>>
                                 \o points_asserted(g.mesh, g.remeshed_surface).calls),
                             d, s, o)

\* The except: branch (304-309): alternative remeshing and a second generation.
\* o.alt_raise: mesh_alternative raises; o.second: the second outcome.
mesh_retry(r, d, s, o) ==
    LET seed == r.remeshed_surface_seed
        c == Simple("mesh_alternative", seed)
        alt == Apply1("mesh_alternative", seed)
        g == generate_mesh_fsi(alt, mesh_solid_thickness(r.args),
                               mesh_target_edge_length(r.args), o.second)
        r1 == [r EXCEPT !.remeshed_surface_seed = alt]
    IN  IF o.alt_raise THEN World(Raise(r, c, "External"), d, s)
        ELSE IF o.second = "raise"
        THEN World(Raise(Log(r1, <<c>>), g.call, "External"), d, s)
        ELSE LET a == points_asserted(g.mesh, g.remeshed_surface)
                 r2 == Log([r1 EXCEPT !.mesh = g.mesh,
                                      !.remeshed_surface = g.remeshed_surface],
                           <<c, g.call>> \o a.calls)
             IN  IF ~a.ok
                 THEN World([r2 EXCEPT !.pc = "aborted", !.error = "AssertionError"],
                            d, s)
                 ELSE scale_and_write(r2, d, s, o)

\* compute_mesh that neither generates nor loads a mesh.
compute_mesh_skipped(r, d, s, o) ==
    World([r EXCEPT !.pc = "boundary"], d, s)

\* o.first: the first outcome of the mesh generator.
compute_mesh(r, d, s, o) ==
    IF ~isfile(d, file_name_vtu_mesh)
    THEN LET g == generate_mesh_fsi(r.remeshed_surface_seed,
                                    mesh_solid_thickness(r.args),
                                    mesh_target_edge_length(r.args), o.first)
         IN  IF o.first = "raise"
             \* the bare except: catches the exception of the call itself too
             THEN LET r1 == Log(r, <<g.call>>)
                  IN  mesh_retry([r1 EXCEPT !.raisedAt = Len(r1.calls)], d, s, o)
             ELSE LET a == points_asserted(g.remeshed_surface, g.mesh)
                      r1 == Log([r EXCEPT !.mesh = g.mesh,
                                          !.remeshed_surface = g.remeshed_surface],
                                <<g.call>> \o a.calls)
                  IN  IF ~a.ok THEN mesh_retry(r1, d, s, o)
                      ELSE scale_and_write(r1, d, s, o)
    ELSE IF o.raise THEN World(Raise(r, Read(file_name_vtu_mesh), "External"), d, s)
    ELSE World(Log([Hit(r, file_name_vtu_mesh) EXCEPT
                       !.mesh = d[file_name_vtu_mesh], !.pc = "boundary"],
                   <<Read(file_name_vtu_mesh)>>), d, s)

\* ------------------------------------- flow rate and boundary ids (321-335)
\* find_boundaries records the flow rate and the boundary ids in the store.
find_boundaries(s) ==
    write_parameters([get_parameters(s) EXCEPT !.boundaries = TRUE])

assign_boundaries(r0, d, s, o) ==
    LET r == Draw(r0, o, {"viz"}) IN
    IF o.raise
    THEN World(Raise(r, Simple("setup_model_network", r.centerlines), "External"), d, s)
    ELSE
    LET parameters == get_parameters(s)
    IN  World(Log([r EXCEPT !.parameters = parameters, !.pc = "cleanup"],
                  <<Simple("setup_model_network", r.centerlines),
                    Simple("get_parameters", Absent),
                    Simple("compute_flow_rate", r.inlet),
                    Simple("find_boundaries", r.mesh)>>
                  \o (IF r.args.viz
                      THEN <<Simple("visualize_model", r.surface_extended)>>
                      ELSE <<>>)),
              d, find_boundaries(s))

\* ------------------------------------------------------- cleanup (337-345)
files_to_remove ==
    <<file_name_centerlines, file_name_refine_region_centerlines,
      file_name_region_centerlines, file_name_distance_to_sphere_diam,
      file_name_distance_to_sphere_const, file_name_distance_to_sphere_curv,
      file_name_voronoi, file_name_voronoi_smooth, file_name_surface_smooth,
      file_name_model_flow_ext, file_name_clipped_model,
      file_name_flow_centerlines, file_name_surface_name>>

\* cleanup that also deletes the parameter store.
cleanup_removing_store(r, d, s, o) ==
    LET listed == {files_to_remove[k] : k \in 1..Len(files_to_remove)}
        existing == SelectSeq(files_to_remove, LAMBDA f : isfile(d, f))
    IN  World(Log([r EXCEPT !.pc = "done", !.status = 0],
                  [k \in 1..Len(existing) |-> Call("remove", Absent, existing[k], 0, 0, "-")]),
              [f \in FileNames |-> IF f \in listed THEN Absent ELSE d[f]], NoStore)

cleanup(r, d, s, o) ==
    LET listed == {files_to_remove[k] : k \in 1..Len(files_to_remove)}
        existing == SelectSeq(files_to_remove, LAMBDA f : isfile(d, f))
    IN  World(Log([r EXCEPT !.pc = "done", !.status = 0],
                  [k \in 1..Len(existing) |-> Call("remove", Absent, existing[k], 0, 0, "-")]),
              [f \in FileNames |-> IF f \in listed THEN Absent ELSE d[f]], s)

\* ------------------------------------------------------------ the machine
Init ==
    /\ model_is_capped \in BOOLEAN
    /\ disk = [f \in FileNames |-> Absent]
    /\ store = NoStore
    /\ run = IdleRun
    /\ runs = 0
    /\ resolved = Unused
    /\ field = Unused
    /\ search = Unused
    /\ race = Unused

Finished(pc) == pc \in {"done", "aborted", "exited"}

\* A run of the case is started.
StartRun ==
    /\ run.pc = "idle" \/ Finished(run.pc)
    /\ runs < MaxRuns
    /\ run' = [IdleRun EXCEPT !.pc = "load"]
    /\ runs' = runs + 1
    /\ UNCHANGED <<model_is_capped, disk, store, resolved, field, search, race>>

\* The stage the run is at (each is a segment of run_pre_processing).
stage(r, d, s, o) ==
    CASE r.pc = "load" -> load_model(r, d, s, o)
      [] r.pc = "verify" -> verify_surface(r, d, s, o)
      [] r.pc = "centerlines" -> get_centerlines(r, d, s, o)
      [] r.pc = "region" -> refine_region_stage(r, d, s, o)
      [] r.pc = "smooth" -> smooth_surface(r, d, s, o)
      [] r.pc = "voronoi" -> voronoi_diagram(r, d, s, o)
      [] r.pc = "voronoi_smooth" -> voronoi_smooth(r, d, s, o)
      [] r.pc = "envelope" -> envelope_surface(r, d, s, o)
      [] r.pc = "flowext" -> add_flow_extensions(r, d, s, o)
      [] r.pc = "flow_cl" -> flow_centerlines(r, d, s, o)
      [] r.pc = "seed" -> seed_remesh(r, d, s, o)
      [] r.pc = "mesh" -> compute_mesh(r, d, s, o)
      [] r.pc = "boundary" -> assign_boundaries(r, d, s, o)
      [] r.pc = "cleanup" -> cleanup(r, d, s, o)

\* What the outside may answer, and the arguments first read, at a stage.
\* The answers that the stage cannot reach are left at one value.
MeshAnswers ==
    {o \in [raise : BOOLEAN, first : MeshOutcomes, alt_raise : BOOLEAN,
            second : MeshOutcomes, scale_factor : ScaleFactors,
            compress_mesh : {FALSE}] :
        /\ o.first = "ok" => ~o.alt_raise /\ o.second = "ok"
        /\ o.alt_raise => o.second = "ok"}

Answers(pc) ==
    CASE pc = "load" -> [raise : BOOLEAN, capped : {model_is_capped},
                         smoothing_method : SmoothingMethods]
      [] pc = "verify" -> [raise : BOOLEAN, foundNaN : BOOLEAN]
      [] pc = "region" -> [raise : BOOLEAN, n : 1..MaxRegions,
                           refine_region : BOOLEAN, region_points : RegionPoints]
      [] pc = "envelope" -> [raise : BOOLEAN, mismatch : BOOLEAN]
      [] pc = "flowext" -> [raise : BOOLEAN, create_flow_extensions : BOOLEAN]
      [] pc = "seed" -> [raise : BOOLEAN, region_points : RegionPoints]
      [] pc = "mesh" -> MeshAnswers
      [] pc = "boundary" -> [raise : BOOLEAN, viz : BOOLEAN]
      [] pc = "cleanup" -> [raise : {FALSE}]
      [] OTHER -> [raise : BOOLEAN]

\* One stage of the run.
Step(Op(_, _, _, _), o) ==
    LET w == Tag(run, Op(run, disk, store, o))
    IN  /\ run' = w.run
        /\ disk' = w.disk
        /\ store' = w.store
        /\ UNCHANGED <<model_is_capped, runs, resolved, field, search, race>>

Load ==
    /\ run.pc = "load"
    /\ \E o \in Answers("load") : Step(load_model, o)

Verify ==
    /\ run.pc = "verify"
    /\ \E o \in Answers("verify") : Step(verify_surface, o)

Centerlines ==
    /\ run.pc = "centerlines"
    /\ \E o \in Answers("centerlines") : Step(get_centerlines, o)

Region ==
    /\ run.pc = "region"
    /\ \E o \in Answers("region") : Step(refine_region_stage, o)

Smooth ==
    /\ run.pc = "smooth"
    /\ \E o \in Answers("smooth") : Step(smooth_surface, o)

VoronoiDiagram ==
    /\ run.pc = "voronoi"
    /\ \E o \in Answers("voronoi") : Step(voronoi_diagram, o)

VoronoiSmooth ==
    /\ run.pc = "voronoi_smooth"
    /\ \E o \in Answers("voronoi_smooth") : Step(voronoi_smooth, o)

Envelope ==
    /\ run.pc = "envelope"
    /\ \E o \in Answers("envelope") : Step(envelope_surface, o)

FlowExtension ==
    /\ run.pc = "flowext"
    /\ \E o \in Answers("flowext") : Step(add_flow_extensions, o)

FlowCenterlines ==
    /\ run.pc = "flow_cl"
    /\ \E o \in Answers("flow_cl") : Step(flow_centerlines, o)

SeedRemesh ==
    /\ run.pc = "seed"
    /\ \E o \in Answers("seed") : Step(seed_remesh, o)

ComputeMesh ==
    /\ run.pc = "mesh"
    /\ \E o \in Answers("mesh") : Step(compute_mesh, o)

Boundaries ==
    /\ run.pc = "boundary"
    /\ \E o \in Answers("boundary") : Step(assign_boundaries, o)

Cleanup ==
    /\ run.pc = "cleanup"
    /\ \E o \in Answers("cleanup") : Step(cleanup, o)

Next ==
    \/ StartRun
    \/ Load
    \/ Verify
    \/ Centerlines
    \/ Region
    \/ Smooth
    \/ VoronoiDiagram
    \/ VoronoiSmooth
    \/ Envelope
    \/ FlowExtension
    \/ FlowCenterlines
    \/ SeedRemesh
    \/ ComputeMesh
    \/ Boundaries
    \/ Cleanup

Spec == Init /\ [][Next]_vars

\* ------------------------------------------------------------ properties
\* The calls a stage of run r made, and the calls the current step adds.
CallsOf(r, st) == SelectSeq(r.calls, LAMBDA c : c.stage = st)

Named(calls, fns) == SelectSeq(calls, LAMBDA c : c.fn \in fns)

NewCalls == SubSeq(run'.calls, Len(run.calls) + 1, Len(run'.calls))

\* The stages after a given one, in source order.
StageOrder ==
    <<"load", "verify", "centerlines", "region", "smooth", "flowext",
      "flow_cl", "seed", "mesh", "boundary", "cleanup">>

StagesAfter(st) ==
    {StageOrder[k] : k \in {j \in 1..Len(StageOrder) :
        \E i \in 1..Len(StageOrder) : StageOrder[i] = st /\ j > i}}

MadeCallsAfter(r, st) == \E k \in 1..Len(r.calls) : r.calls[k].stage \in StagesAfter(st)

\* The cached stages: where the run is when it reaches the stage, the cache
\* file, the local that receives the result, the routines that compute it,
\* and whether the flags of the run enable the stage.
CachedStages ==
    {[pc |-> "load", file |-> file_name_clipped_model, out |-> "surface",
      work |-> {"get_uncapped_surface"}],
     [pc |-> "voronoi", file |-> file_name_voronoi, out |-> "voronoi",
      work |-> {"vmtk_compute_voronoi_diagram"}],
     [pc |-> "voronoi_smooth", file |-> file_name_voronoi_smooth,
      out |-> "smooth_voronoi", work |-> {"smooth_voronoi_diagram"}],
     [pc |-> "smooth", file |-> file_name_surface_smooth, out |-> "surface",
      work |-> {"vmtk_smooth_surface", "vmtk_compute_voronoi_diagram",
                "smooth_voronoi_diagram", "create_new_surface",
                "get_uncapped_surface", "compute_centers"}],
     [pc |-> "flowext", file |-> file_name_model_flow_ext,
      out |-> "surface_extended",
      work |-> {"add_flow_extension", "vmtk_smooth_surface"}],
     [pc |-> "flow_cl", file |-> file_name_flow_centerlines, out |-> "centerlines",
      work |-> {"get_centers_for_meshing", "compute_centerlines"}],
     [pc |-> "seed", file |-> file_name_seedX, out |-> "remeshed_surface_seed",
      work |-> {"refine_mesh_seed", "vmtkSurfaceRemeshing"}],
     [pc |-> "mesh", file |-> file_name_vtu_mesh, out |-> "mesh",
      work |-> {"vmtkMeshGeneratorFsi", "mesh_alternative", "vmtkSurfaceScaling",
                "vmtkMeshScaling", "vmtkMeshWriter"}]}

StageEnabled(pc, r) ==
    CASE pc = "load" -> r.capped /\ r.args.smoothing_method # "voronoi"
      [] pc = "smooth" -> r.args.smoothing_method # "no_smooth"
      [] pc \in {"flowext", "flow_cl"} -> r.args.create_flow_extensions
      [] OTHER -> TRUE

\* C1: a stage that is enabled and finds its output file present makes none
\* of its computing calls, writes nothing, and (unless the read itself
\* raises) hands the content of the file to what follows; this whatever
\* arguments the run has.
C1_CacheShortCircuit ==
    [][\A c \in CachedStages :
          (/\ run.pc = c.pc
           /\ run'.pc # c.pc
           /\ isfile(disk, c.file)
           /\ StageEnabled(c.pc, run'))
          => /\ Named(NewCalls, c.work) = <<>>
             /\ Named(NewCalls, {"write_polydata"}) = <<>>
             /\ disk' = disk
             /\ run'.pc # "aborted" => run'[c.out] = disk[c.file]]_vars

\* A second run that found the clipped model, the smoothed surface, the
\* flow-extended surface, its centerlines, the seed-remeshed surface and the
\* mesh on disk, and has the cached mesh in hand.
C1_Witness ==
    /\ runs = 2
    /\ run.pc = "boundary"
    /\ run.hits = {file_name_clipped_model, file_name_surface_smooth,
                   file_name_model_flow_ext, file_name_flow_centerlines,
                   file_name_seedX, file_name_vtu_mesh}
    /\ run.mesh = disk[file_name_vtu_mesh]
    /\ Named(run.calls, {"vmtkMeshGeneratorFsi", "refine_mesh_seed",
                         "add_flow_extension", "vmtk_smooth_surface"}) = <<>>

\* C1, second witness: the Voronoi branch with both diagrams found on disk.
C1_WitnessVoronoi ==
    /\ run.pc = "envelope"
    /\ run.hits = {file_name_voronoi, file_name_voronoi_smooth}
    /\ run.smooth_voronoi = disk[file_name_voronoi_smooth]

Count(calls, fns) == Len(Named(calls, fns))

\* The GetNumberOfPoints calls that met an object without points.
ZeroPointChecks(calls) ==
    SelectSeq(Named(calls, {"GetNumberOfPoints"}), LAMBDA c : c.input = NoPoints)

\* The calls made after the first call of routine fn (none if there is none).
CallsAfter(calls, fn) ==
    IF \E k \in 1..Len(calls) : calls[k].fn = fn
    THEN SubSeq(calls, 1 + CHOOSE k \in 1..Len(calls) :
                              /\ calls[k].fn = fn
                              /\ \A j \in 1..(k - 1) : calls[j].fn # fn,
                Len(calls))
    ELSE <<>>

\* C2: the mesh stage makes at most two generations and at most one
\* alternative remeshing.  A first generation without points is followed by
\* exactly one mesh_alternative call, on the seed-remeshed surface, and the
\* second generation (if it is reached) is made on its result.  When the
\* second generation has no points either the run is aborted with an error:
\* nothing has been written, and nothing of boundary assignment or cleanup
\* has been called.
C2_OneRetry ==
    LET gen == Named(run.calls, {"vmtkMeshGeneratorFsi"})
        alt == Named(run.calls, {"mesh_alternative"})
        retry == CallsAfter(run.calls, "mesh_alternative")
        seed == disk[file_name_seedX]
    IN  /\ Len(gen) <= 2 /\ Len(alt) <= 1
        /\ ZeroPointChecks(run.calls) # <<>> =>
              /\ Len(alt) = 1
              /\ alt[1].input = Kind(seed)
              /\ run.pc # "aborted" \/ Len(gen) = 2 =>
                    run.remeshed_surface_seed = Apply1("mesh_alternative", seed)
              /\ Len(gen) = 2 => gen[2].input = "mesh_alternative"
        /\ ZeroPointChecks(retry) # <<>> =>
              /\ run.pc = "aborted"
              /\ run.error = "AssertionError"
              /\ ~isfile(disk, file_name_vtu_mesh)
              /\ Named(CallsOf(run, "mesh"), {"write_polydata", "vmtkMeshWriter"}) = <<>>
              /\ ~MadeCallsAfter(run, "mesh")

\* Both generations returned an object without points.
C2_Witness ==
    /\ Len(ZeroPointChecks(run.calls)) = 2
    /\ Count(run.calls, {"vmtkMeshGeneratorFsi"}) = 2
    /\ run.pc = "aborted"

\* C3: when the outlet count after Voronoi smoothing differs from the number
\* of centerline lines, the run smooths the re-enveloped surface with 200
\* Laplacian iterations, writes it to the smoothed-surface file and exits
\* with status 0; no later stage makes any call.
C3_OutletMismatchHalts ==
    run.outlets_differ = "True" =>
        LET made == CallsOf(run, "smooth")
            n == Len(made)
            enveloped == Apply1("create_new_surface", run.smooth_voronoi)
        IN  /\ run.pc = "exited"
            /\ run.status = 0
            /\ n >= 2
            /\ made[n - 1].fn = "vmtk_smooth_surface"
            /\ made[n - 1].mode = "laplace"
            /\ made[n - 1].n1 = 200
            /\ made[n - 1].input = "create_new_surface"
            /\ made[n].fn = "write_polydata"
            /\ made[n].mode = file_name_surface_smooth
            /\ Count(made, {"vmtk_smooth_surface"}) = 1
            /\ disk[file_name_surface_smooth] = Smoothed(enveloped, "laplace", 200)
            /\ run.surface = disk[file_name_surface_smooth]
            /\ ~MadeCallsAfter(run, "smooth")

C3_Witness ==
    /\ run.outlets_differ = "True"
    /\ run.pc = "exited"
    /\ isfile(disk, file_name_surface_smooth)

\* The routines that write the parameter store.
StoreWriters ==
    {"write_parameters", "get_centers_for_meshing", "get_regions_to_refine",
     "find_boundaries"}

\* C5: when verification runs and NaN triangles are still found after the
\* cleaning step, the run aborts with an error; check_surface is not written
\* to the parameter store (no store-writing routine is called in the run), the
\* step that finds the triangles leaves the store on disk as it was, and no
\* later stage is invoked in that run.
C5_NaNAborts ==
    /\ [](run.foundNaN = "True" =>
            /\ run.pc = "aborted"
            /\ run.error = "RuntimeError"
            /\ ~run.parameters.check_surface
            /\ ~get_parameters(store).check_surface
            /\ Named(run.calls, StoreWriters) = <<>>
            /\ ~MadeCallsAfter(run, "verify"))
    /\ [][run'.foundNaN = "True" /\ run.foundNaN # "True" => store' = store]_vars

\* The repair was applied, NaN triangles were found again and the run aborted.
C5_Witness ==
    /\ run.foundNaN = "True"
    /\ run.pc = "aborted"
    /\ Len(Named(run.calls, {"foundAndDeleteNaNTriangles"})) = 2
    /\ Named(run.calls, {"cleanTheSurface"}) # <<>>

\* C4: after a run that reaches the end of cleanup, no intermediate file is
\* on disk (centerlines, region centerlines and the per-region files, the two
\* Voronoi diagrams, smoothed surface, flow-extended surface, clipped model,
\* flow-extension centerlines), and the volumetric mesh, the remeshed surface
\* and the solver mesh are.
IntermediateFiles ==
    {file_name_centerlines, file_name_refine_region_centerlines,
     file_name_voronoi, file_name_voronoi_smooth, file_name_surface_smooth,
     file_name_model_flow_ext, file_name_clipped_model,
     file_name_flow_centerlines} \cup RegionFiles

FinalOutputs == {file_name_vtu_mesh, file_name_surface_name, file_name_xml_mesh}

C4_CleanupKeepsOutputsOnly ==
    run.pc = "done" =>
        /\ \A f \in IntermediateFiles : ~isfile(disk, f)
        /\ \A f \in FinalOutputs : isfile(disk, f)

\* The smoothing stage has just ended, by reaching the flow extension or by
\* the exit at 223.
PastSmoothing(r) ==
    \/ r.pc = "flowext"
    \/ r.pc = "exited" /\ r.outlets_differ = "True"

\* What the smoothing stage called, file reads and writes left out: the
\* routine, its method and numeric options and what it was applied to.
SmoothingCalls(r) ==
    LET made == SelectSeq(CallsOf(r, "smooth"),
                          LAMBDA c : c.fn \notin {"read_polydata", "write_polydata"})
    IN  [k \in 1..Len(made) |->
            IF made[k].fn = "vmtk_smooth_surface"
            THEN <<made[k].fn, made[k].mode, made[k].n1, made[k].n2, made[k].input>>
            ELSE <<made[k].fn>>]

\* The end of the Voronoi branch: new surface, uncapping, outlet count and
\* the 200-iteration Laplacian smooth, of the uncapped surface when the
\* outlet count matches.
EnvelopeCalls(r) ==
    <<<<"create_new_surface">>, <<"get_uncapped_surface">>, <<"compute_centers">>,
      <<"vmtk_smooth_surface", "laplace", 200, 0,
        IF r.outlets_differ = "False" THEN "get_uncapped_surface"
        ELSE "create_new_surface">>>>

\* C6 as stated: whatever is on disk, no_smooth makes no smoothing call,
\* laplace and taubin make exactly one (400 iterations, passband 0.5), and
\* voronoi makes diagram, pruning, new surface, uncapping, outlet count and
\* one 200-iteration Laplacian smooth, in this order.
C6_DispatchAlways ==
    PastSmoothing(run) =>
        LET m == run.args.smoothing_method
            made == SmoothingCalls(run)
        IN  /\ m = "no_smooth" => made = <<>>
            /\ m \in {"laplace", "taubin"} =>
                 /\ Len(made) = 1
                 /\ made[1][1] = "vmtk_smooth_surface"
                 /\ made[1][2] = m /\ made[1][3] = 400 /\ made[1][4] = 50
            /\ m = "voronoi" =>
                 made = <<<<"vmtk_compute_voronoi_diagram">>,
                          <<"smooth_voronoi_diagram">>>> \o EnvelopeCalls(run)

\* C6 (amended): the dispatch holds for what the stage has to compute.  When
\* the smoothed-surface file is present the stage makes no external call but
\* the read of that file; otherwise no_smooth makes no call and leaves the
\* surface as it was, laplace and taubin make exactly one smoothing call
\* (that method, 400 iterations, passband 0.5), and voronoi makes, in order,
\* the diagram computation and the pruning (each only when its own file is
\* absent), new surface, uncapping, outlet count and exactly one 200-iteration
\* Laplacian smooth.
C6_Dispatch ==
    PastSmoothing(run) =>
        LET m == run.args.smoothing_method
            made == SmoothingCalls(run)
            hit(f) == f \in run.hits
        IN  /\ m = "no_smooth" =>
                 /\ CallsOf(run, "smooth") = <<>>
                 /\ Kind(run.surface) # "vmtk_smooth_surface"
            /\ (m # "no_smooth" /\ hit(file_name_surface_smooth)) =>
                 /\ made = <<>>
                 /\ run.surface = disk[file_name_surface_smooth]
            /\ (m \in {"laplace", "taubin"} /\ ~hit(file_name_surface_smooth)) =>
                 /\ Len(made) = 1
                 /\ made[1][1] = "vmtk_smooth_surface"
                 /\ made[1][2] = m /\ made[1][3] = 400 /\ made[1][4] = 50
            /\ (m = "voronoi" /\ ~hit(file_name_surface_smooth)) =>
                 made = (IF hit(file_name_voronoi) THEN <<>>
                         ELSE <<<<"vmtk_compute_voronoi_diagram">>>>)
                        \o (IF hit(file_name_voronoi_smooth) THEN <<>>
                            ELSE <<<<"smooth_voronoi_diagram">>>>)
                        \o EnvelopeCalls(run)

\* A laplace or taubin run that smoothed the surface itself.
C6_Witness ==
    /\ run.pc = "flowext"
    /\ run.args.smoothing_method \in {"laplace", "taubin"}
    /\ file_name_surface_smooth \notin run.hits
    /\ Len(SmoothingCalls(run)) = 1

\* A voronoi run that computed both diagrams and passed the outlet check.
C6_WitnessVoronoi ==
    /\ run.pc = "flowext"
    /\ run.args.smoothing_method = "voronoi"
    /\ run.hits \cap {file_name_surface_smooth, file_name_voronoi,
                      file_name_voronoi_smooth} = {}
    /\ Len(SmoothingCalls(run)) = 6

\* C7: an exception raised by an external routine ends the run at the call
\* that raised; no call is made after it.
C7_RaiseAborts ==
    run.raisedAt > 0 =>
        /\ run.pc = "aborted"
        /\ Len(run.calls) = run.raisedAt

\* The routines of the verification at 107-113.
RepairRoutines ==
    {"vtk_clean_polydata", "vtk_triangulate_surface", "surfaceOverview",
     "foundAndDeleteNaNTriangles", "cleanTheSurface"}

\* C8: the step in which verification finds no NaN triangles leaves
\* check_surface in the parameter store; from then on, in that run and in
\* every later run of the case, no step removes check_surface or deletes the
\* store (cleanup included) and no step calls a clean / triangulate / repair
\* routine.
C8_CheckSurfaceMemoized ==
    /\ [][(run'.foundNaN = "False" /\ run.foundNaN # "False") =>
             /\ store'.exists
             /\ get_parameters(store').check_surface]_vars
    /\ [][get_parameters(store).check_surface =>
             /\ store'.exists
             /\ get_parameters(store').check_surface
             /\ Named(NewCalls, RepairRoutines) = <<>>]_vars

\* A second run, after the first was cleaned up, has read check_surface from
\* the store and gone on to the centerlines without verifying.
C8_Witness ==
    /\ runs = 2
    /\ run.pc = "centerlines"
    /\ run.parameters.check_surface
    /\ Named(run.calls, {"get_parameters"}) # <<>>
    /\ Named(run.calls, RepairRoutines) = <<>>
    /\ isfile(disk, file_name_vtu_mesh)

\* C9: a run with refine_region false hands the region points to no routine
\* and does not fail for want of them.
C9_RegionPointsUnused ==
    ("refine_region" \in run.read /\ ~run.args.refine_region) =>
        /\ \A k \in 1..Len(run.calls) : run.calls[k].points = "-"
        /\ ~(run.pc = "aborted" /\ run.error = "TypeError")

\* The run with the meshing_method and edge_length options replaced.
WithOptions(r, m, e) ==
    [r EXCEPT !.args.meshing_method = m, !.args.edge_length = e]

Runs == {1, 2}

other(p) == CHOOSE q \in Runs : q # p

\* The file: whether the name exists, and the runs writing it at the moment.
NoFile == [exists |-> FALSE, writers |-> {}]

\* What read_polydata finds in a file that is shown complete whatever a
\* writer is still doing.
read_result_whole(f) ==
    IF ~f.exists THEN "missing" ELSE "complete"

\* What read_polydata (246) finds.
read_result(f) ==
    IF ~f.exists THEN "missing"
    ELSE IF f.writers # {} THEN "partial"
    ELSE "complete"

\* pc: the statement each run is at; surface: what the run holds ("unbound",
\* "smoothed", or what it read); seen: the file as path.isfile saw it; at:
\* the file as the read found it.
InitRace ==
    /\ race = [pc |-> [p \in Runs |-> "isfile"],
               file |-> NoFile,
               surface |-> [p \in Runs |-> "unbound"],
               error |-> [p \in Runs |-> ""],
               seen |-> [p \in Runs |-> NoFile],
               at |-> [p \in Runs |-> NoFile]]
    /\ model_is_capped = FALSE
    /\ disk = [f \in FileNames |-> Absent]
    /\ store = NoStore
    /\ run = IdleRun
    /\ runs = 0
    /\ resolved = Unused
    /\ field = Unused
    /\ search = Unused

RaceStep(next) ==
    /\ race' = next
    /\ UNCHANGED <<pipeline, resolved, field, search>>

\* 238: if not path.isfile(file_name_surface_smooth)
CheckFile(p) ==
    /\ race.pc[p] = "isfile"
    /\ RaceStep([race EXCEPT !.seen[p] = race.file,
                             !.pc[p] = IF race.file.exists THEN "read" ELSE "smooth"])

\* 240: surface = vmtk_smooth_surface(...)
SmoothSurface(p) ==
    /\ race.pc[p] = "smooth"
    /\ RaceStep([race EXCEPT !.surface[p] = "smoothed", !.pc[p] = "write"])

\* 243: write_polydata opens the file ...
OpenForWrite(p) ==
    /\ race.pc[p] = "write"
    /\ RaceStep([race EXCEPT !.file = [exists |-> TRUE, writers |-> @.writers \cup {p}],
                             !.pc[p] = "writing"])

\* ... and closes it when all of the surface is written.  A writer whose
\* file was removed meanwhile writes to a name that no longer exists.
CloseAfterWrite(p) ==
    /\ race.pc[p] = "writing"
    /\ RaceStep([race EXCEPT !.file.writers = @ \ {p}, !.pc[p] = "exists"])

\* 246: surface = read_polydata(file_name_surface_smooth)
ReadFile(p) ==
    /\ race.pc[p] = "read"
    /\ LET got == read_result(race.file)
       IN  RaceStep([race EXCEPT !.at[p] = race.file,
                                 !.surface[p] = IF got = "missing" THEN @ ELSE got,
                                 !.error[p] = IF got = "missing" THEN "read" ELSE @,
                                 !.pc[p] = IF got = "missing" THEN "aborted" ELSE "exists"])

\* 344: if path.exists(file)
CheckExists(p) ==
    /\ race.pc[p] = "exists"
    /\ RaceStep([race EXCEPT !.pc[p] = IF race.file.exists THEN "remove" ELSE "done"])

\* 345: remove(file)
RemoveFile(p) ==
    /\ race.pc[p] = "remove"
    /\ RaceStep([race EXCEPT !.file = NoFile,
                             !.error[p] = IF race.file.exists THEN @ ELSE "remove",
                             !.pc[p] = IF race.file.exists THEN "done" ELSE "aborted"])

RunStep(p) ==
    \/ CheckFile(p)
    \/ SmoothSurface(p)
    \/ OpenForWrite(p)
    \/ CloseAfterWrite(p)
    \/ ReadFile(p)
    \/ CheckExists(p)
    \/ RemoveFile(p)

NextRace == \E p \in Runs : RunStep(p)

SpecRace == InitRace /\ [][NextRace]_vars

\* C11: the check-then-read / compute-then-write pattern takes no lock.  No
\* statement of a run ever waits for the other run; what a run reads is the
\* file as it is at the moment of the read, not as the existence check saw
\* it: a run that passed the check reads part of the content exactly when
\* the other run is still writing the file, and fails to find the file
\* exactly when the other run's cleanup has removed it since the check.
C11_UnlockedCache ==
    \A p \in Runs :
        /\ race.pc[p] \notin {"done", "aborted"} => ENABLED RunStep(p)
        /\ race.surface[p] = "partial" =>
              /\ race.seen[p].exists
              /\ race.at[p].writers = {other(p)}
        /\ race.surface[p] = "complete" =>
              /\ race.seen[p].exists
              /\ race.at[p].exists /\ race.at[p].writers = {}
        /\ race.error[p] = "read" =>
              /\ race.seen[p].exists
              /\ ~race.at[p].exists
              /\ race.pc[other(p)] = "done"

\* A run has passed the existence check and read a file the other run had
\* only partially written.
C11_Witness ==
    \E p \in Runs :
        /\ race.surface[p] = "partial"
        /\ race.seen[p].exists
        /\ race.at[p].writers = {other(p)}

\* The other run's cleanup removed the file between the check and the read.
C11_WitnessRemoved ==
    \E p \in Runs :
        /\ race.error[p] = "read"
        /\ race.seen[p].exists
        /\ race.pc[other(p)] = "done"

\* ------------------------------------------------------- order of stages
\* The place of a position of the run in the source.
PcOrder ==
    <<"load", "verify", "centerlines", "region", "smooth", "voronoi",
      "voronoi_smooth", "envelope", "flowext", "flow_cl", "seed", "mesh",
      "boundary", "cleanup">>

Rank(order, x) == CHOOSE k \in 1..Len(order) : order[k] = x

\* The positions in the log of the calls of the given routines.
Places(calls, fns) == {k \in 1..Len(calls) : calls[k].fn \in fns}

\* C12: within a run the stages are entered in the one forward order of the
\* source.  Every step of a run takes it to a later stage or ends it; the
\* calls in the log are grouped by stage, in stage order; scaling comes
\* after the generation and before the mesh is written; boundary assignment
\* is reached only with a mesh generated and written, or loaded from the
\* mesh file; and cleanup only after boundary assignment.
C12_ForwardOrder ==
    /\ [][(run.pc # "idle" /\ ~Finished(run.pc)) =>
             \/ Finished(run'.pc)
             \/ Rank(PcOrder, run'.pc) > Rank(PcOrder, run.pc)]_vars
    /\ [](\A i \in 1..(Len(run.calls) - 1) :
             Rank(StageOrder, run.calls[i].stage)
                <= Rank(StageOrder, run.calls[i + 1].stage))
    /\ [](LET scalings == Places(run.calls, {"vmtkSurfaceScaling", "vmtkMeshScaling"})
          IN  scalings # {} =>
                 \A k \in scalings :
                    /\ \A g \in Places(run.calls, {"vmtkMeshGeneratorFsi"}) : g < k
                    /\ \A w \in Places(run.calls, {"vmtkMeshWriter"}) : k < w)
    /\ []((run.pc \in {"boundary", "cleanup", "done"}
           \/ Places(run.calls, {"find_boundaries"}) # {}) =>
             /\ run.mesh # Absent
             /\ isfile(disk, file_name_vtu_mesh) \/ run.pc = "done"
             /\ \/ file_name_vtu_mesh \in run.hits
                   /\ run.mesh = disk[file_name_vtu_mesh]
                \/ /\ Places(run.calls, {"vmtkMeshGeneratorFsi"}) # {}
                   /\ \E w \in Places(run.calls, {"write_polydata"}) :
                         run.calls[w].mode = file_name_vtu_mesh)
    /\ []((run.pc \in {"cleanup", "done"} \/ Places(run.calls, {"remove"}) # {}) =>
             /\ Places(run.calls, {"find_boundaries"}) # {}
             /\ \A k \in Places(run.calls, {"remove"}) :
                   \A b \in Places(run.calls, {"find_boundaries"}) : b < k)

\* A run went through every stage to the end of cleanup, removing files.
C12_Witness ==
    /\ run.pc = "done"
    /\ Places(run.calls, {"vmtkMeshGeneratorFsi"}) # {}
    /\ Places(run.calls, {"find_boundaries"}) # {}
    /\ Places(run.calls, {"remove"}) # {}

\* ====================================================== path resolution
\* Lines 62-83: the case name and the directory are cut out of the input
\* path with str.rsplit, and every file name is path.join(dir_path,
\* case_name + suffix).  A path is a sequence of characters; a suffix is
\* kept as one element.
MaxPathLen == 4

sep == "/"

Characters == {sep, ".", "a", "b"}

\* The input paths: not empty, and not ending in a separator.
ModelPaths ==
    {q \in UNION {[1..n -> Characters] : n \in 1..MaxPathLen} : q[Len(q)] # sep}

Positions(s, c) == {k \in 1..Len(s) : s[k] = c}

Max(S) == CHOOSE x \in S : \A y \in S : y <= x
Min(S) == CHOOSE x \in S : \A y \in S : x <= y

\* s.rsplit(c, 1): at most one split, at the last c.
rsplit_once(s, c) ==
    IF Positions(s, c) = {} THEN <<s>>
    ELSE LET k == Max(Positions(s, c))
         IN  <<SubSeq(s, 1, k - 1), SubSeq(s, k + 1, Len(s))>>

\* s.rsplit(c)[0]: split at every c, first piece.
rsplit_first(s, c) ==
    IF Positions(s, c) = {} THEN s
    ELSE SubSeq(s, 1, Min(Positions(s, c)) - 1)

\* 62: filename_model.rsplit(path.sep, 1)[-1].rsplit('.')[0]
case_name(filename_model) ==
    LET pieces == rsplit_once(filename_model, sep)
    IN  rsplit_first(pieces[Len(pieces)], ".")

\* 63: filename_model.rsplit(path.sep, 1)[0]
dir_path(filename_model) == rsplit_once(filename_model, sep)[1]

\* os.path.join(a, b) for a relative b.
path_join(a, b) ==
    IF a = <<>> \/ a[Len(a)] = sep THEN a \o b ELSE a \o <<sep>> \o b

\* The suffixes of 66-83.
Suffixes ==
    {file_name_centerlines, file_name_refine_region_centerlines,
     file_name_region_centerlines, file_name_distance_to_sphere_diam,
     file_name_distance_to_sphere_const, file_name_distance_to_sphere_curv,
     file_name_voronoi, file_name_voronoi_smooth, file_name_surface_smooth,
     file_name_model_flow_ext, file_name_clipped_model,
     file_name_flow_centerlines, file_name_surface_name, file_name_xml_mesh,
     file_name_vtu_mesh, file_name_seedX}

derived_path(filename_model, suffix) ==
    path_join(dir_path(filename_model), Append(case_name(filename_model), suffix))

InitPaths ==
    /\ resolved \in [filename_model : ModelPaths, done : {FALSE},
                     case_name : {<<>>}, dir_path : {<<>>}, files : {<<>>}]
    /\ model_is_capped = FALSE
    /\ disk = [f \in FileNames |-> Absent]
    /\ store = NoStore
    /\ run = IdleRun
    /\ runs = 0
    /\ field = Unused
    /\ search = Unused
    /\ race = Unused

\* Lines 60-83 for the input path drawn.
ResolvePaths ==
    /\ ~resolved.done
    /\ resolved' = [resolved EXCEPT
                       !.done = TRUE,
                       !.case_name = case_name(resolved.filename_model),
                       !.dir_path = dir_path(resolved.filename_model),
                       !.files = [x \in Suffixes |->
                                     derived_path(resolved.filename_model, x)]]
    /\ UNCHANGED <<pipeline, field, search, race>>

NextPaths == ResolvePaths

SpecPaths == InitPaths /\ [][NextPaths]_vars

\* The directory a path lies in (empty: the current directory), as
\* os.path.dirname gives it: up to the last separator, trailing separators
\* dropped unless it is the root; its file name; and the file name without
\* its extension.
Directory(q) ==
    IF Positions(q, sep) = {} THEN <<>>
    ELSE LET head == SubSeq(q, 1, Max(Positions(q, sep)))
             others == {k \in 1..Len(head) : head[k] # sep}
         IN  IF others = {} THEN head ELSE SubSeq(head, 1, Max(others))

FileName(q) ==
    IF Positions(q, sep) = {} THEN q
    ELSE SubSeq(q, Max(Positions(q, sep)) + 1, Len(q))

Stem(name) ==
    LET dots == {k \in Positions(name, ".") : \E j \in 1..(k - 1) : name[j] # "."}
    IN  IF dots = {} THEN name ELSE SubSeq(name, 1, Max(dots) - 1)

\* C13: for every input path the case name is the stem of the file name,
\* and every derived path lies in the input file's directory and is named
\* case name + suffix.
C13_DerivedPathsAreSiblings ==
    resolved # Unused /\ resolved.done =>
        LET input == resolved.filename_model
        IN  /\ resolved.case_name = Stem(FileName(input))
            /\ \A x \in Suffixes :
                  /\ Directory(resolved.files[x]) = Directory(input)
                  /\ FileName(resolved.files[x]) = Append(resolved.case_name, x)

\* What does hold: the file name is case name + suffix whatever the input;
\* and when the input names a directory other than the root, the derived
\* paths lie in it; the case name is the stem when the file name has no dot
\* but that of its extension.
PathsWithDirectory ==
    resolved # Unused /\ resolved.done =>
        LET input == resolved.filename_model
            name == FileName(input)
        IN  /\ \A x \in Suffixes :
                  FileName(resolved.files[x]) = Append(resolved.case_name, x)
            /\ (\E k \in 1..Len(Directory(input)) : Directory(input)[k] # sep) =>
                  \A x \in Suffixes : Directory(resolved.files[x]) = Directory(input)
            /\ (Cardinality(Positions(name, ".")) <= 1 /\ name[1] # ".") =>
                  resolved.case_name = Stem(name)

\* ====================================================== seed size field
\* refine_mesh_seed (pre_processing_common.py 55-72): the per-vertex "Size"
\* array computed from the distance of every vertex to the seed.  The
\* distances are the input; values are kept in fixed point: the fraction of
\* the largest distance as a pair, the power in units of 10^-5, the rest in
\* units of 1 / Scale.  Factors are in hundredths.
MaxVertices == 3
MaxDist == 3

Scale == 10000

CoarseningFactors == {50, 100, 200}

\* (1 + e/m) ** factor_shape - 1 with factor_shape = 0.3, in units of 10^-5,
\* for the fractions e/m with m <= 6 (the key is 60 * e / m).
PowerTable ==
    (0 :> 0) @@ (10 :> 4733) @@ (12 :> 5622) @@ (15 :> 6923) @@ (20 :> 9014)
    @@ (24 :> 10621) @@ (30 :> 12935) @@ (36 :> 15143) @@ (40 :> 16561)
    @@ (45 :> 18280) @@ (48 :> 19284) @@ (50 :> 19942) @@ (60 :> 23114)

\* 66: dist_array - dist_array.min()
from_min(dist) ==
    LET lo == Min({dist[i] : i \in DOMAIN dist})
    IN  [i \in DOMAIN dist |-> dist[i] - lo]

\* 67-68: (dist_array / dist_array.max() + 1) ** factor_shape - 1
shaped(dist) ==
    LET hi == Max({dist[i] : i \in DOMAIN dist})
    IN  [i \in DOMAIN dist |-> PowerTable[(60 * dist[i]) \div hi]]

\* 69: dist_array / dist_array.max(), between 0 and 1
unit(dist) ==
    LET hi == Max({dist[i] : i \in DOMAIN dist})
    IN  [i \in DOMAIN dist |-> (dist[i] * Scale) \div hi]

\* Line 70 without the "+ 1".
scaled_unshifted(dist, factor_scale) ==
    [i \in DOMAIN dist |-> (dist[i] * (factor_scale - 100)) \div 100]

\* 70: dist_array * (factor_scale - 1) + 1
scaled(dist, factor_scale) ==
    [i \in DOMAIN dist |-> (dist[i] * (factor_scale - 100)) \div 100 + Scale]

\* 71: dist_array * TargetEdgeLength_s
sized(dist) == [i \in DOMAIN dist |-> (dist[i] * SeedTargetEdgeLength) \div 100]

\* 64-71.  When all vertices are at the same distance, 67 divides 0 by 0 and
\* every size is NaN.
size_field(dist, coarsening_factor) ==
    LET d == from_min(dist)
    IN  IF \A i \in DOMAIN d : d[i] = 0
        THEN [i \in DOMAIN dist |-> "nan"]
        ELSE sized(scaled(unit(shaped(d)), coarsening_factor))

InitField ==
    /\ field \in [dist : UNION {[1..n -> 0..MaxDist] : n \in 1..MaxVertices},
                  coarsening_factor : CoarseningFactors,
                  size : {<<>>}]
    /\ model_is_capped = FALSE
    /\ disk = [f \in FileNames |-> Absent]
    /\ store = NoStore
    /\ run = IdleRun
    /\ runs = 0
    /\ resolved = Unused
    /\ search = Unused
    /\ race = Unused

\* The size array is computed and added to the surface (60-78).
ComputeSizeField ==
    /\ field.size = <<>>
    /\ field' = [field EXCEPT !.size = size_field(field.dist, field.coarsening_factor)]
    /\ UNCHANGED <<pipeline, resolved, search, race>>

NextField == ComputeSizeField

SpecField == InitField /\ [][NextField]_vars

\* The sizes are computed, for vertices not all at the same distance.
FieldComputed ==
    /\ field # Unused
    /\ field.size # <<>>
    /\ \E i, j \in DOMAIN field.dist : field.dist[i] # field.dist[j]

Base == (SeedTargetEdgeLength * Scale) \div 100

C14_WitnessRefined ==
    /\ FieldComputed
    /\ field.coarsening_factor < 100
    /\ \E i, j \in DOMAIN field.dist :
          field.dist[i] < field.dist[j] /\ field.size[i] > field.size[j]

\* ================================================= region line search
\* Lines 153-166 for the region lines that have no file yet: the backward
\* search for the point where a region line leaves the centerlines.  A line
\* is given by, for each of its point indices 0..n-1, whether the distance
\* from that point to the closest point of the centerlines is within tol
\* (162).  j is a local of run_pre_processing: it keeps its value from one
\* region to the next, and is unbound until a search assigns it.
MaxLines == 2
MaxLineLen == 3

\* The value of j while no search has assigned it; the indices are >= 0.
Unbound == -1

RegionLines == UNION {[0..(n - 1) -> BOOLEAN] : n \in 1..MaxLineLen}

GetNumberOfLinePoints(line) == Cardinality(DOMAIN line)

InitSearch ==
    /\ \E lines \in UNION {[1..m -> RegionLines] : m \in 1..MaxLines} :
          search = [lines |-> lines, i |-> 0, pc |-> "for_i", j |-> Unbound,
                    cursor |-> 0, broke |-> <<>>, start_id |-> <<>>, error |-> ""]
    /\ model_is_capped = FALSE
    /\ disk = [f \in FileNames |-> Absent]
    /\ store = NoStore
    /\ run = IdleRun
    /\ runs = 0
    /\ resolved = Unused
    /\ field = Unused
    /\ race = Unused

SearchStep(next) ==
    /\ search # Unused
    /\ search' = next
    /\ UNCHANGED <<pipeline, resolved, field, race>>

\* 153, 155-157: the next region line, and the start of
\* range(line.GetNumberOfPoints() - 1, 0, -1), which is empty for a line of
\* one point.
NextLine ==
    /\ search.pc = "for_i"
    /\ IF search.i = Len(search.lines)
       THEN SearchStep([search EXCEPT !.pc = "done"])
       ELSE LET first == GetNumberOfLinePoints(search.lines[search.i + 1]) - 1
            IN  SearchStep([search EXCEPT
                               !.cursor = first,
                               !.pc = IF first >= 1 THEN "for_j" ELSE "extract",
                               !.broke = IF first >= 1 THEN @ ELSE Append(@, FALSE)])

\* 157-163: one pass of the inner loop: j takes the next value of the range,
\* and the loop is left when the distance is within tol, or when the range
\* is used up.
TestPoint ==
    /\ search.pc = "for_j"
    /\ LET j == search.cursor
           within == search.lines[search.i + 1][j]
       IN  SearchStep([search EXCEPT
                          !.j = j,
                          !.cursor = j - 1,
                          !.pc = IF within \/ j - 1 < 1 THEN "extract" ELSE "for_j",
                          !.broke = IF within THEN Append(@, TRUE)
                                    ELSE IF j - 1 < 1 THEN Append(@, FALSE) ELSE @])

\* 165-166: extract_single_line(line, 0, start_id=j); reading j while it is
\* unbound raises UnboundLocalError.
ExtractLine ==
    /\ search.pc = "extract"
    /\ IF search.j = Unbound
       THEN SearchStep([search EXCEPT !.pc = "aborted", !.error = "UnboundLocalError"])
       ELSE SearchStep([search EXCEPT !.start_id = Append(@, search.j),
                                      !.i = @ + 1, !.pc = "for_i"])

NextSearch == NextLine \/ TestPoint \/ ExtractLine

SpecSearch == InitSearch /\ [][NextSearch]_vars

\* C15: for every region line the search stops at the first index, walking
\* backwards, whose distance is within tolerance; the line written starts
\* at that index, the largest index of the line within tolerance; and the
\* start index is always defined for the line being processed.
C15_StartAtLastWithinTolerance ==
    search # Unused =>
        /\ search.error = ""
        /\ \A k \in 1..Len(search.start_id) :
              LET line == search.lines[k]
                  start == search.start_id[k]
              IN  /\ start \in DOMAIN line
                  /\ line[start]
                  /\ \A q \in DOMAIN line : q > start => ~line[q]

\* What does hold: when the inner loop was left by the break at 163, the
\* start index is the largest index of the line within tolerance.
StartWhenFound ==
    search # Unused =>
        \A k \in 1..Len(search.start_id) :
            search.broke[k] =>
                LET line == search.lines[k]
                    start == search.start_id[k]
                IN  /\ start \in DOMAIN line /\ start >= 1
                    /\ line[start]
                    /\ \A q \in DOMAIN line : q > start => ~line[q]

\* ---------------------------------------------------------------- scaling
\* How many times routine fn was applied in the making of x.
Applied(x, fn) == Cardinality({k \in 1..Len(x) : x[k] = fn})

\* C16: the surface and the mesh are scaled together or not at all, only
\* when scale_factor is not None, only in a run that generates the mesh and
\* before it is written; a run that loads the mesh file scales nothing.  So
\* whatever runs came before, the mesh of the run, the mesh on disk and the
\* mesh handed to boundary assignment were scaled at most once.
C16_ScaledAtMostOnce ==
    LET surface_scalings == Places(run.calls, {"vmtkSurfaceScaling"})
        mesh_scalings == Places(run.calls, {"vmtkMeshScaling"})
        generations == Places(run.calls, {"vmtkMeshGeneratorFsi"})
        writes == {k \in Places(run.calls, {"write_polydata", "vmtkMeshWriter"}) :
                      run.calls[k].mode \in {file_name_surface_name, file_name_vtu_mesh,
                                             file_name_xml_mesh}}
    IN  /\ Cardinality(surface_scalings) = Cardinality(mesh_scalings)
        /\ Cardinality(mesh_scalings) <= 1
        /\ mesh_scalings # {} =>
              /\ "scale_factor" \in run.read /\ run.args.scale_factor # "None"
              /\ generations # {}
              /\ file_name_vtu_mesh \notin run.hits
              /\ \A k \in surface_scalings \cup mesh_scalings :
                    /\ \A g \in generations : g < k
                    /\ \A w \in writes : k < w
        /\ (writes # {} /\ run.args.scale_factor # "None") => mesh_scalings # {}
        /\ file_name_vtu_mesh \in run.hits =>
              surface_scalings = {} /\ mesh_scalings = {} /\ generations = {}
        /\ Applied(run.mesh, "vmtkMeshScaling") <= 1
        /\ Applied(run.remeshed_surface, "vmtkSurfaceScaling") <= 1
        /\ \A f \in {file_name_vtu_mesh, file_name_xml_mesh} :
              Applied(disk[f], "vmtkMeshScaling") <= 1
        /\ Applied(disk[file_name_surface_name], "vmtkSurfaceScaling") <= 1
        /\ Places(run.calls, {"find_boundaries"}) # {} =>
              run.mesh = disk[file_name_vtu_mesh]

\* A second run, with a scale factor, has loaded the mesh that the first run
\* scaled and wrote, and has gone on to boundary assignment without scaling.
C16_Witness ==
    /\ runs = 2
    /\ run.pc = "cleanup"
    /\ file_name_vtu_mesh \in run.hits
    /\ Applied(run.mesh, "vmtkMeshScaling") = 1
    /\ Places(run.calls, {"vmtkMeshScaling", "vmtkSurfaceScaling"}) = {}
    /\ Places(run.calls, {"find_boundaries"}) # {}

====
